---- MODULE Spec2Model ----
(***************************************************************************)
(* A model of the solar datasheet parser: the upload handler of app.py and *)
(* the pipeline of solar_parser.py (text extraction, the remote call, the  *)
(* clean-up of the completion, canonical key order, the summary).          *)
(*                                                                         *)
(* Text is a sequence of one-character strings, so that slicing, strip(),  *)
(* startswith(), endswith(), lower() and the JSON parse act on characters. *)
(* A JSON value is a record [t, n, s, items]: t is the type of the parsed     *)
(* value, n a number in tenths (21.2 is 212), s the characters of a *)
(* string, items the elements of a list or the [k, v] members of a dict in *)
(* insertion order.                                                        *)
(***************************************************************************)
EXTENDS Integers, Sequences, FiniteSets, TLC

\* ------------------------------------------------------------ characters

\* The grave accent of a markdown fence: TLA+ strings cannot hold it, so the
\* character is written by name.
Backtick == "GRAVE"

\* The characters the model's texts are written in, in code-point order.
Alphabet ==
  << "\n", " ", "\"", ",", ".", "/", "0", "1", "2", "3", "4", "5", "6",
     "7", "8", "9", ":", "A", "B", "C", "D", "E", "F", "G", "H", "I", "J",
     "K", "L", "M", "N", "O", "P", "Q", "R", "S", "T", "U", "V", "W", "X",
     "Y", "Z", "[", "]", "_", Backtick, "a", "b", "c", "d", "e", "f", "g",
     "h", "i", "j", "k", "l", "m", "n", "o", "p", "q", "r", "s", "t", "u",
     "v", "w", "x", "y", "z", "{", "}" >>

\* The place of character c in code-point order.
Ord(c) == CHOOSE i \in 1..Len(Alphabet) : Alphabet[i] = c

Digits == <<"0", "1", "2", "3", "4", "5", "6", "7", "8", "9">>

IsDigit(c) == \E i \in 1..10 : Digits[i] = c

DigitVal(c) == (CHOOSE i \in 1..10 : Digits[i] = c) - 1

\* str.strip() with no argument removes these; json's scanner skips them.
IsSpace(c) == c \in {" ", "\n"}

\* ------------------------------------------------------- string literals

K_product == <<"p", "r", "o", "d", "u", "c", "t">>

K_electrical_specs == <<"e", "l", "e", "c", "t", "r", "i", "c", "a", "l", "_", "s", "p", "e", "c", "s">>

K_mechanical_specs == <<"m", "e", "c", "h", "a", "n", "i", "c", "a", "l", "_", "s", "p", "e", "c", "s">>

K_temperature_specs == <<"t", "e", "m", "p", "e", "r", "a", "t", "u", "r", "e", "_", "s", "p", "e", "c", "s">>

K_warranty == <<"w", "a", "r", "r", "a", "n", "t", "y">>

K_certifications == <<"c", "e", "r", "t", "i", "f", "i", "c", "a", "t", "i", "o", "n", "s">>

K_notes == <<"n", "o", "t", "e", "s">>

K_wattage_range == <<"w", "a", "t", "t", "a", "g", "e", "_", "r", "a", "n", "g", "e">>

K_power_variants == <<"p", "o", "w", "e", "r", "_", "v", "a", "r", "i", "a", "n", "t", "s">>

K_efficiency_pct == <<"e", "f", "f", "i", "c", "i", "e", "n", "c", "y", "_", "p", "c", "t">>

K_manufacturer == <<"m", "a", "n", "u", "f", "a", "c", "t", "u", "r", "e", "r">>

K_series == <<"s", "e", "r", "i", "e", "s">>

K_model_types == <<"m", "o", "d", "e", "l", "_", "t", "y", "p", "e", "s">>

K_min == <<"m", "i", "n">>

K_max == <<"m", "a", "x">>

K_max_system_voltage_v == <<"m", "a", "x", "_", "s", "y", "s", "t", "e", "m", "_", "v", "o", "l", "t", "a", "g", "e", "_", "v">>

K_length_mm == <<"l", "e", "n", "g", "t", "h", "_", "m", "m">>

K_width_mm == <<"w", "i", "d", "t", "h", "_", "m", "m">>

K_weight_kg == <<"w", "e", "i", "g", "h", "t", "_", "k", "g">>

K_cell_type == <<"c", "e", "l", "l", "_", "t", "y", "p", "e">>

K_operating_range_c == <<"o", "p", "e", "r", "a", "t", "i", "n", "g", "_", "r", "a", "n", "g", "e", "_", "c">>

K_temp_coefficient_pmax_pct_per_c == <<"t", "e", "m", "p", "_", "c", "o", "e", "f", "f", "i", "c", "i", "e", "n", "t", "_", "p", "m", "a", "x", "_", "p", "c", "t", "_", "p", "e", "r", "_", "c">>

K_years == <<"y", "e", "a", "r", "s">>

K_degradation_rate_pct == <<"d", "e", "g", "r", "a", "d", "a", "t", "i", "o", "n", "_", "r", "a", "t", "e", "_", "p", "c", "t">>

FENCE_JSON == <<Backtick, Backtick, Backtick, "j", "s", "o", "n">>

FENCE == <<Backtick, Backtick, Backtick>>

DOT_PDF == <<".", "p", "d", "f">>

S_Unknown == <<"U", "n", "k", "n", "o", "w", "n">>

S_Solar_Module == <<"S", "o", "l", "a", "r", " ", "M", "o", "d", "u", "l", "e">>

S_NA == <<"N", "/", "A">>

S_Sep == <<",", " ">>

\* ------------------------------------------------------- str operations

\* s[i:] and s[:-i] of Python, for 0 < i.
DropFirst(s, i) == SubSeq(s, i + 1, Len(s))

DropLast(s, i) == SubSeq(s, 1, Len(s) - i)

\* str.startswith(prefix)
startswith(s, prefix) ==
  /\ Len(prefix) <= Len(s)
  /\ SubSeq(s, 1, Len(prefix)) = prefix

\* str.endswith(suffix)
endswith(s, suffix) ==
  /\ Len(suffix) <= Len(s)
  /\ SubSeq(s, Len(s) - Len(suffix) + 1, Len(s)) = suffix

\* str.strip(): the text between its first and its last non-space character.
strip(s) ==
  LET keep == {i \in 1..Len(s) : ~IsSpace(s[i])}
  IN  IF keep = {} THEN <<>>
      ELSE SubSeq(s, CHOOSE i \in keep : \A j \in keep : i <= j,
                     CHOOSE i \in keep : \A j \in keep : j <= i)

UpperCase ==
  << "A", "B", "C", "D", "E", "F", "G", "H", "I", "J", "K", "L", "M", "N",
     "O", "P", "Q", "R", "S", "T", "U", "V", "W", "X", "Y", "Z" >>

LowerCase ==
  << "a", "b", "c", "d", "e", "f", "g", "h", "i", "j", "k", "l", "m", "n",
     "o", "p", "q", "r", "s", "t", "u", "v", "w", "x", "y", "z" >>

\* str.lower()
lower(s) ==
  [i \in 1..Len(s) |->
     IF \E u \in 1..Len(UpperCase) : UpperCase[u] = s[i]
     THEN LowerCase[CHOOSE u \in 1..Len(UpperCase) : UpperCase[u] = s[i]]
     ELSE s[i]]

\* s < t for two str: the first differing character decides, then the length.
StrLess(s, t) ==
  LET diff == {i \in 1..Len(s) : i <= Len(t) /\ s[i] # t[i]}
  IN  IF \E i \in 1..Len(s) : i <= Len(t) /\ s[i] # t[i]
      THEN LET d == CHOOSE i \in diff : \A j \in diff : i <= j
           IN  Ord(s[d]) < Ord(t[d])
      ELSE Len(s) < Len(t)

\* ------------------------------------------------------------ JSON values

Null == [t |-> "NoneType", n |-> 0, s |-> <<>>, items |-> <<>>]

Num(x) == [t |-> "number", n |-> x, s |-> <<>>, items |-> <<>>]

Str(chars) == [t |-> "str", n |-> 0, s |-> chars, items |-> <<>>]

Arr(elems) == [t |-> "list", n |-> 0, s |-> <<>>, items |-> elems]

Member(key, val) == [k |-> key, v |-> val]

Obj(members) == [t |-> "dict", n |-> 0, s |-> <<>>, items |-> members]

IsDict(x) == x.t = "dict"

\* k in d, for a dict d.
HasKey(d, key) == \E i \in 1..Len(d.items) : d.items[i].k = key

\* d[k], for a dict d that has k.
Lookup(d, key) ==
  d.items[CHOOSE i \in 1..Len(d.items) : d.items[i].k = key].v

\* d.get(k, default), for a dict d.
dict_get(d, key, default) == IF HasKey(d, key) THEN Lookup(d, key) ELSE default

\* d[k] = v on an insertion-ordered dict: a known key keeps its place.
dict_set(members, key, val) ==
  IF \E i \in 1..Len(members) : members[i].k = key
  THEN [i \in 1..Len(members) |->
          IF members[i].k = key THEN Member(key, val) ELSE members[i]]
  ELSE Append(members, Member(key, val))

\* bool(x)
Truthy(x) ==
  CASE x.t = "NoneType" -> FALSE
    [] x.t = "number" -> x.n # 0
    [] x.t = "str" -> x.s # <<>>
    [] OTHER -> x.items # <<>>

\* ------------------------------------------------------------ json.loads

\* The outcome of a parse: the value and the position after it, or a failure
\* (json.JSONDecodeError).
Failed == [ok |-> FALSE, val |-> Null, next |-> 0]

Parsed(v, nxt) == [ok |-> TRUE, val |-> v, next |-> nxt]

\* The first position at or after i that holds no whitespace.
SkipSpace(s, i) ==
  LET stop == {j \in i..Len(s) : ~IsSpace(s[j])}
  IN  IF stop = {} THEN Len(s) + 1
      ELSE CHOOSE j \in stop : \A k \in stop : j <= k

\* A string that opens at i: up to the next quote, no control character in
\* it (escapes are not in the model's alphabet).
ParseString(s, i) ==
  LET close == {j \in (i + 1)..Len(s) : s[j] = "\""}
      j == CHOOSE c \in close : \A k \in close : c <= k
  IN  IF close = {} THEN Failed
      ELSE IF \E k \in (i + 1)..(j - 1) : s[k] = "\n" THEN Failed
      ELSE Parsed(Str(SubSeq(s, i + 1, j - 1)), j + 1)

RECURSIVE DecVal(_, _, _)
\* The number the digits s[i..j] write.
DecVal(s, i, j) ==
  IF j < i THEN 0 ELSE DecVal(s, i, j - 1) * 10 + DigitVal(s[j])

\* A number that opens at i: 0 or a run of digits with no leading 0, then
\* an optional fraction, of which the model keeps one digit (tenths).
ParseNumber(s, i) ==
  LET nondigit == {j \in i..Len(s) : ~IsDigit(s[j])}
      run == IF nondigit = {} THEN Len(s)
             ELSE (CHOOSE j \in nondigit : \A k \in nondigit : j <= k) - 1
      last == IF s[i] = "0" THEN i ELSE run
      whole == DecVal(s, i, last)
  IN  IF last + 2 <= Len(s) /\ s[last + 1] = "." /\ IsDigit(s[last + 2])
      THEN Parsed(Num(whole * 10 + DigitVal(s[last + 2])), last + 3)
      ELSE Parsed(Num(whole * 10), last + 1)

RECURSIVE ParseValue(_, _)
RECURSIVE ParseElems(_, _, _)
RECURSIVE ParseMembers(_, _, _)

\* The value that opens at i. The texts of the model write null, numbers
\* without sign or exponent, strings without escapes, lists and dicts.
ParseValue(s, i) ==
  IF i > Len(s) THEN Failed
  ELSE CASE s[i] = "\"" -> ParseString(s, i)
         [] s[i] = "{" ->
              LET j == SkipSpace(s, i + 1)
              IN  IF j <= Len(s) /\ s[j] = "}" THEN Parsed(Obj(<<>>), j + 1)
                  ELSE ParseMembers(s, j, <<>>)
         [] s[i] = "[" ->
              LET j == SkipSpace(s, i + 1)
              IN  IF j <= Len(s) /\ s[j] = "]" THEN Parsed(Arr(<<>>), j + 1)
                  ELSE ParseElems(s, j, <<>>)
         [] s[i] = "n" ->
              IF i + 3 <= Len(s) /\ SubSeq(s, i, i + 3) = <<"n", "u", "l", "l">>
              THEN Parsed(Null, i + 4) ELSE Failed
         [] IsDigit(s[i]) -> ParseNumber(s, i)
         [] OTHER -> Failed

\* The rest of a list whose next element opens at i; acc holds the elements
\* before it.
ParseElems(s, i, acc) ==
  LET r == ParseValue(s, i)
      j == SkipSpace(s, r.next)
  IN  IF ~r.ok THEN Failed
      ELSE IF j > Len(s) THEN Failed
      ELSE IF s[j] = "]" THEN Parsed(Arr(Append(acc, r.val)), j + 1)
      ELSE IF s[j] = "," THEN ParseElems(s, SkipSpace(s, j + 1), Append(acc, r.val))
      ELSE Failed

\* The rest of a dict whose next key opens at i; acc holds the members
\* before it.
ParseMembers(s, i, acc) ==
  IF i > Len(s) \/ s[i] # "\"" THEN Failed
  ELSE LET key == ParseString(s, i)
           c == SkipSpace(s, key.next)
           val == ParseValue(s, SkipSpace(s, c + 1))
           j == SkipSpace(s, val.next)
           acc2 == dict_set(acc, key.val.s, val.val)
       IN  IF ~key.ok THEN Failed
           ELSE IF c > Len(s) \/ s[c] # ":" THEN Failed
           ELSE IF ~val.ok THEN Failed
           ELSE IF j > Len(s) THEN Failed
           ELSE IF s[j] = "}" THEN Parsed(Obj(acc2), j + 1)
           ELSE IF s[j] = "," THEN ParseMembers(s, SkipSpace(s, j + 1), acc2)
           ELSE Failed

\* json.loads(s): one value, whitespace around it and nothing else.
json_loads(s) ==
  LET r == ParseValue(s, SkipSpace(s, 1))
  IN  IF ~r.ok THEN Failed
      ELSE IF SkipSpace(s, r.next) # Len(s) + 1 THEN Failed
      ELSE r

\* A clean-up whose leading slice is one character short: [6:].
clean_json_text_short(result_text) ==
  LET stripped == strip(result_text)
      headless == IF startswith(stripped, FENCE_JSON)
                  THEN DropFirst(stripped, 6) ELSE stripped
  IN  IF endswith(headless, FENCE) THEN DropLast(headless, 3) ELSE headless

\* The clean-up of the completion before the parse: strip(), then the
\* leading fence and the trailing fence are cut off when they are there.
clean_json_text(result_text) ==
  LET stripped == strip(result_text)
      headless == IF startswith(stripped, FENCE_JSON)
                  THEN DropFirst(stripped, 7) ELSE stripped
  IN  IF endswith(headless, FENCE) THEN DropLast(headless, 3) ELSE headless

\* ------------------------------------------------------------ exceptions

\* An exception is its class and what str(e) tells of it.
NoError == [exc |-> "none", msg |-> ""]

\* 'T' object has no attribute 'get', T the type of x
AttributeError(x) == [exc |-> "AttributeError", msg |-> x.t]

TypeError(what) == [exc |-> "TypeError", msg |-> what]

\* sys.exit(1)
SystemExit == [exc |-> "SystemExit", msg |-> "1"]

\* The classes "except Exception" catches: all of the model's but SystemExit.
IsException(e) == e.exc \notin {"none", "SystemExit"}

\* --------------------------------------------------- iteration, max, join

\* Whether "for v in x" works: over a list's elements, a str's characters, a
\* dict's keys.
Iterable(x) == x.t \in {"list", "str", "dict"}

Iterate(x) ==
  CASE x.t = "list" -> x.items
    [] x.t = "str" -> [i \in 1..Len(x.s) |-> Str(<<x.s[i]>>)]
    [] x.t = "dict" -> [i \in 1..Len(x.items) |-> Str(x.items[i].k)]
    [] OTHER -> <<>>

RECURSIVE Greater(_, _)
\* a > b: [err, val]. Numbers by value, str by characters, lists by their
\* first unequal elements and then by length; anything else is a TypeError.
Greater(a, b) ==
  CASE a.t = "number" /\ b.t = "number" -> [err |-> FALSE, val |-> a.n > b.n]
    [] a.t = "str" /\ b.t = "str" -> [err |-> FALSE, val |-> StrLess(b.s, a.s)]
    [] a.t = "list" /\ b.t = "list" ->
         LET diff == {i \in 1..Len(a.items) :
                        i <= Len(b.items) /\ a.items[i] # b.items[i]}
             d == CHOOSE i \in diff : \A j \in diff : i <= j
         IN  IF diff = {}
             THEN [err |-> FALSE, val |-> Len(a.items) > Len(b.items)]
             ELSE Greater(a.items[d], b.items[d])
    [] OTHER -> [err |-> TRUE, val |-> FALSE]

RECURSIVE MaxFrom(_, _, _)
\* max() from element i on, m being the largest so far: a later element
\* replaces m only when it is greater.
MaxFrom(vals, i, m) ==
  IF i > Len(vals) THEN [err |-> FALSE, val |-> m]
  ELSE LET g == Greater(vals[i], m)
       IN  IF g.err THEN [err |-> TRUE, val |-> m]
           ELSE MaxFrom(vals, i + 1, IF g.val THEN vals[i] ELSE m)

\* max(vals) of a non-empty list.
py_max(vals) == MaxFrom(vals, 2, vals[1])

RECURSIVE JoinFrom(_, _, _)
JoinFrom(sep, elems, i) ==
  IF i > Len(elems) THEN <<>>
  ELSE (IF i = 1 THEN <<>> ELSE sep) \o elems[i].s \o JoinFrom(sep, elems, i + 1)

\* sep.join(elems), every element a str.
join(sep, elems) == JoinFrom(sep, elems, 1)

RECURSIVE SelectFrom(_, _, _)
\* [v.get(key) for v in elems if v.get(key) is not None], from element i on.
SelectFrom(elems, key, i) ==
  IF i > Len(elems) THEN <<>>
  ELSE LET x == dict_get(elems[i], key, Null)
       IN  (IF x # Null THEN <<x>> ELSE <<>>) \o SelectFrom(elems, key, i + 1)

\* ------------------------------------------------------ generate_summary

\* The summary is the report with its interpolated values, or the string
\* "Error generating summary: <e>".
Report(slots) == [kind |-> "report", error |-> NoError, slots |-> slots]

SummaryError(e) == [kind |-> "error", error |-> e]

EmptyDict == Obj(<<>>)

EmptyList == Arr(<<>>)

\* The first element of elems that is no dict (elems has one).
FirstNonDict(elems) ==
  elems[CHOOSE i \in 1..Len(elems) :
          /\ ~IsDict(elems[i])
          /\ \A j \in 1..(i - 1) : IsDict(elems[j])]

\* data.get(key): None when the record has no such key.
section_required(data, key) == dict_get(data, key, Null)

\* data.get(key, {}): a section of the record, the empty dict when the
\* record has no such key.
section(data, key) == dict_get(data, key, EmptyDict)

\* The first exception the body of generate_summary raises on data, a dict,
\* in the order the lines evaluate; NoError when it raises none.
SummaryRaises(data) ==
  LET product == section(data, K_product)
      elec == section(data, K_electrical_specs)
      mech == section(data, K_mechanical_specs)
      temp == section(data, K_temperature_specs)
      warranty == section(data, K_warranty)
      variants == Iterate(dict_get(elec, K_power_variants, EmptyList))
      efficiency_values == SelectFrom(variants, K_efficiency_pct, 1)
      model_types == dict_get(product, K_model_types, EmptyList)
  IN  \* max_power: product.get("wattage_range"), and its .get('max') if truthy
      IF ~IsDict(product) THEN AttributeError(product)
      ELSE IF /\ Truthy(dict_get(product, K_wattage_range, Null))
              /\ ~IsDict(dict_get(product, K_wattage_range, Null))
      THEN AttributeError(dict_get(product, K_wattage_range, Null))
      \* efficiency_values: elec.get('power_variants', []), v.get(...) of each
      ELSE IF ~IsDict(elec) THEN AttributeError(elec)
      ELSE IF ~Iterable(dict_get(elec, K_power_variants, EmptyList))
      THEN TypeError("not iterable")
      ELSE IF \E i \in 1..Len(variants) : ~IsDict(variants[i])
      THEN AttributeError(FirstNonDict(variants))
      \* max(efficiency_values)
      ELSE IF efficiency_values # <<>> /\ py_max(efficiency_values).err
      THEN TypeError("not supported between instances")
      \* ', '.join(product.get('model_types', []))
      ELSE IF ~Iterable(model_types) THEN TypeError("can only join an iterable")
      ELSE IF \E i \in 1..Len(Iterate(model_types)) : Iterate(model_types)[i].t # "str"
      THEN TypeError("expected str instance")
      \* product.get('wattage_range', {}).get('min')
      ELSE IF ~IsDict(dict_get(product, K_wattage_range, EmptyDict))
      THEN AttributeError(dict_get(product, K_wattage_range, EmptyDict))
      \* mech.get('length_mm')
      ELSE IF ~IsDict(mech) THEN AttributeError(mech)
      \* temp.get('operating_range_c', {}).get('min')
      ELSE IF ~IsDict(temp) THEN AttributeError(temp)
      ELSE IF ~IsDict(dict_get(temp, K_operating_range_c, EmptyDict))
      THEN AttributeError(dict_get(temp, K_operating_range_c, EmptyDict))
      \* warranty.get('years')
      ELSE IF ~IsDict(warranty) THEN AttributeError(warranty)
      ELSE NoError

\* The first efficiency in place of the largest.
max_efficiency_first(elec) ==
  LET efficiency_values ==
        SelectFrom(Iterate(dict_get(elec, K_power_variants, EmptyList)),
                   K_efficiency_pct, 1)
  IN  IF efficiency_values # <<>> THEN efficiency_values[1] ELSE Str(S_NA)

\* max(efficiency_values) if efficiency_values else "N/A"
max_efficiency(elec) ==
  LET efficiency_values ==
        SelectFrom(Iterate(dict_get(elec, K_power_variants, EmptyList)),
                   K_efficiency_pct, 1)
  IN  IF efficiency_values # <<>> THEN py_max(efficiency_values).val
      ELSE Str(S_NA)

\* The values the f-string interpolates, where the body raises nothing.
SummarySlots(data) ==
  LET product == section(data, K_product)
      elec == section(data, K_electrical_specs)
      mech == section(data, K_mechanical_specs)
      temp == section(data, K_temperature_specs)
      warranty == section(data, K_warranty)
      wattage_range == dict_get(product, K_wattage_range, EmptyDict)
      operating_range_c == dict_get(temp, K_operating_range_c, EmptyDict)
  IN  [ manufacturer |-> dict_get(product, K_manufacturer, Str(S_Unknown)),
        series |-> dict_get(product, K_series, Str(S_Solar_Module)),
        models |-> Str(join(S_Sep, Iterate(dict_get(product, K_model_types, EmptyList)))),
        power_min |-> dict_get(wattage_range, K_min, Null),
        power_max |-> dict_get(wattage_range, K_max, Null),
        efficiency |-> max_efficiency(elec),
        max_system_voltage_v |-> dict_get(elec, K_max_system_voltage_v, Null),
        length_mm |-> dict_get(mech, K_length_mm, Null),
        width_mm |-> dict_get(mech, K_width_mm, Null),
        weight_kg |-> dict_get(mech, K_weight_kg, Null),
        cell_type |-> dict_get(mech, K_cell_type, Null),
        operating_min |-> dict_get(operating_range_c, K_min, Null),
        operating_max |-> dict_get(operating_range_c, K_max, Null),
        temp_coefficient |-> dict_get(temp, K_temp_coefficient_pmax_pct_per_c, Null),
        years |-> dict_get(warranty, K_years, Null),
        degradation |-> dict_get(warranty, K_degradation_rate_pct, Null) ]

\* A generate_summary whose except clause names AttributeError only.
generate_summary_narrow(data) ==
  IF SummaryRaises(data) = NoError
  THEN [raised |-> NoError, value |-> Report(SummarySlots(data))]
  ELSE IF SummaryRaises(data).exc = "AttributeError"
  THEN [raised |-> NoError, value |-> SummaryError(SummaryRaises(data))]
  ELSE [raised |-> SummaryRaises(data), value |-> SummaryError(NoError)]

\* generate_summary(data): what the call raises and what it returns. The
\* try block returns the report; "except Exception" catches whatever the
\* body raises and returns the error string in its place.
generate_summary(data) ==
  IF SummaryRaises(data) = NoError
  THEN [raised |-> NoError, value |-> Report(SummarySlots(data))]
  ELSE IF IsException(SummaryRaises(data))
  THEN [raised |-> NoError, value |-> SummaryError(SummaryRaises(data))]
  ELSE [raised |-> SummaryRaises(data), value |-> SummaryError(NoError)]

\* --------------------------------------------------------- canonical keys

ordered_keys ==
  << K_product, K_electrical_specs, K_mechanical_specs, K_temperature_specs,
     K_warranty, K_certifications >>

RECURSIVE IsSubstring(_, _, _)
\* Whether sub occurs in s at position i or later.
IsSubstring(sub, s, i) ==
  IF i + Len(sub) - 1 > Len(s) THEN FALSE
  ELSE SubSeq(s, i, i + Len(sub) - 1) = sub \/ IsSubstring(sub, s, i + 1)

\* "k in raw_json" for what json.loads can return: a key of a dict, an
\* element of a list, a substring of a str. A number or None is not
\* iterable, and the test raises TypeError.
Contains(raw_json, key) ==
  CASE raw_json.t = "dict" -> HasKey(raw_json, key)
    [] raw_json.t = "list" ->
         \E i \in 1..Len(raw_json.items) : raw_json.items[i] = Str(key)
    [] raw_json.t = "str" -> IsSubstring(key, raw_json.s, 1)
    [] OTHER -> FALSE

RECURSIVE KeepModelOrder(_, _)
\* A filter that walks the keys of raw_json instead of ordered_keys:
\* {k: v for k, v in raw_json.items() if k in ordered_keys}.
KeepModelOrder(raw_json, i) ==
  IF i > Len(raw_json.items) THEN <<>>
  ELSE (IF \E j \in 1..Len(ordered_keys) : ordered_keys[j] = raw_json.items[i].k
        THEN <<raw_json.items[i]>>
        ELSE <<>>) \o KeepModelOrder(raw_json, i + 1)

RECURSIVE KeepOrdered(_, _)
\* {k: raw_json.get(k) for k in ordered_keys[i..] if k in raw_json}, for a
\* dict raw_json.
KeepOrdered(raw_json, i) ==
  IF i > Len(ordered_keys) THEN <<>>
  ELSE (IF HasKey(raw_json, ordered_keys[i])
        THEN <<Member(ordered_keys[i], dict_get(raw_json, ordered_keys[i], Null))>>
        ELSE <<>>) \o KeepOrdered(raw_json, i + 1)

\* The exception the comprehension raises on raw_json: the membership test
\* needs an iterable, .get a dict.
CanonicalRaises(raw_json) ==
  IF raw_json.t \in {"number", "NoneType"} THEN TypeError("not iterable")
  ELSE IF ~IsDict(raw_json) /\ \E i \in 1..Len(ordered_keys) : Contains(raw_json, ordered_keys[i])
  THEN AttributeError(raw_json)
  ELSE NoError

\* json_output where the comprehension raises nothing: a list or a str with
\* none of the keys in it gives the empty dict.
json_output_of(raw_json) ==
  IF IsDict(raw_json) THEN Obj(KeepOrdered(raw_json, 1)) ELSE EmptyDict

\* ------------------------------------------------- what the model returns

RECURSIVE IntChars(_)
IntChars(x) ==
  IF x < 10 THEN <<Digits[x + 1]>>
  ELSE IntChars(x \div 10) \o <<Digits[(x % 10) + 1]>>

RECURSIVE Dumps(_)
RECURSIVE DumpsElems(_, _)
RECURSIVE DumpsMembers(_, _)

\* The JSON text of a value, as the endpoint may write it.
Dumps(x) ==
  CASE x.t = "NoneType" -> <<"n", "u", "l", "l">>
    [] x.t = "number" ->
         IntChars(x.n \div 10)
           \o (IF x.n % 10 = 0 THEN <<>> ELSE <<".", Digits[(x.n % 10) + 1]>>)
    [] x.t = "str" -> <<"\"">> \o x.s \o <<"\"">>
    [] x.t = "list" -> <<"[">> \o DumpsElems(x.items, 1) \o <<"]">>
    [] OTHER -> <<"{">> \o DumpsMembers(x.items, 1) \o <<"}">>

DumpsElems(elems, i) ==
  IF i > Len(elems) THEN <<>>
  ELSE (IF i = 1 THEN <<>> ELSE <<",", " ">>)
         \o Dumps(elems[i]) \o DumpsElems(elems, i + 1)

DumpsMembers(members, i) ==
  IF i > Len(members) THEN <<>>
  ELSE (IF i = 1 THEN <<>> ELSE <<",", "\n">>)
         \o <<"\"">> \o members[i].k \o <<"\"", ":", " ">>
         \o Dumps(members[i].v) \o DumpsMembers(members, i + 1)

\* One entry of power_variants with the given efficiency_pct.
Variant(eff) == Obj(<<Member(K_efficiency_pct, eff)>>)

Electrical(variants) ==
  Obj(<< Member(K_power_variants, Arr(variants)),
         Member(K_max_system_voltage_v, Num(15000)) >>)

GoodProduct ==
  Obj(<< Member(K_manufacturer, Str(<<"S", "u", "n">>)),
         Member(K_series, Str(<<"M", "a", "x">>)),
         Member(K_model_types, Arr(<<Str(<<"M", "1">>), Str(<<"M", "2">>)>>)),
         Member(K_wattage_range,
                Obj(<<Member(K_min, Num(4000)), Member(K_max, Num(4100))>>)) >>)

GoodMechanical ==
  Obj(<< Member(K_length_mm, Num(17220)), Member(K_width_mm, Num(11340)),
         Member(K_weight_kg, Num(215)), Member(K_cell_type, Str(<<"m", "o", "n", "o">>)) >>)

GoodTemperature ==
  Obj(<< Member(K_operating_range_c, Obj(<<Member(K_min, Null), Member(K_max, Num(850))>>)),
         Member(K_temp_coefficient_pmax_pct_per_c, Null) >>)

GoodWarranty ==
  Obj(<<Member(K_years, Num(250)), Member(K_degradation_rate_pct, Num(4))>>)

GoodCertifications == Arr(<<Str(<<"I", "E", "C">>)>>)

\* The values the completions of the model write: well-formed records in
\* and out of the schema's key order, with keys missing and unknown, lists
\* of variants with and without efficiencies, sections of the wrong shape,
\* and values that are no JSON object.
Values ==
  { EmptyDict,
    Obj(<< Member(K_product, GoodProduct),
           Member(K_electrical_specs, Electrical(<<Variant(Num(212)), Variant(Null), Variant(Num(225))>>)),
           Member(K_mechanical_specs, GoodMechanical),
           Member(K_temperature_specs, GoodTemperature),
           Member(K_warranty, GoodWarranty),
           Member(K_certifications, GoodCertifications) >>),
    Obj(<< Member(K_certifications, GoodCertifications),
           Member(K_notes, Str(<<"n", "/", "a">>)),
           Member(K_warranty, GoodWarranty),
           Member(K_product, GoodProduct),
           Member(K_electrical_specs, Electrical(<<Variant(Num(225)), EmptyDict, Variant(Num(212))>>)) >>),
    Obj(<< Member(K_warranty, Null), Member(K_product, GoodProduct) >>),
    Obj(<< Member(K_notes, Null) >>),
    Obj(<< Member(K_electrical_specs, Electrical(<<Variant(Num(212)), Variant(Num(230)), Variant(Num(225))>>)) >>),
    Obj(<< Member(K_electrical_specs, Electrical(<<Variant(Null), EmptyDict>>)) >>),
    Obj(<< Member(K_electrical_specs, Electrical(<<>>)) >>),
    Obj(<< Member(K_electrical_specs, EmptyDict), Member(K_mechanical_specs, GoodMechanical) >>),
    Obj(<< Member(K_electrical_specs, Electrical(<<Variant(Num(0)), Variant(Null)>>)) >>),
    Obj(<< Member(K_electrical_specs, Electrical(<<Variant(Num(212)), Variant(Str(<<"2", "2">>))>>)) >>),
    Obj(<< Member(K_electrical_specs, Electrical(<<Variant(Num(212)), Num(10)>>)) >>),
    Obj(<< Member(K_electrical_specs, Obj(<<Member(K_power_variants, Null)>>)) >>),
    Obj(<< Member(K_product, Null) >>),
    Obj(<< Member(K_product, Obj(<<Member(K_wattage_range, Null)>>)) >>),
    Obj(<< Member(K_product, Obj(<<Member(K_model_types, Arr(<<Num(10)>>))>>)) >>),
    Obj(<< Member(K_mechanical_specs, Arr(<<Num(10)>>)) >>),
    Obj(<< Member(K_temperature_specs, Str(<<"h", "o", "t">>)) >>),
    Null,
    Num(50),
    Arr(<<Num(10)>>),
    Arr(<<Str(K_product)>>),
    Str(K_product),
    Str(<<"o", "k">>) }

\* Completions that write no JSON value: nothing, prose, a record cut short,
\* a record with a trailing comma.
Garbage ==
  { <<>>,
    <<"S", "u", "r", "e", ":", " ", "{", "}">>,
    <<"{", "\"", "p", "r", "o", "d", "u", "c", "t", "\"", ":">>,
    <<"[", "1", ",", "]">> }

\* The ways a completion wraps its text: bare, with whitespace around it,
\* in a markdown fence (tight, on lines of its own, with whitespace around
\* the fence), or with one of the two fence markers only.
Wraps == {"bare", "padded", "fenced", "fenced_tight", "fenced_padded", "open_only", "close_only"}

Wrap(w, body) ==
  CASE w = "bare" -> body
    [] w = "padded" -> <<"\n", " ">> \o body \o <<" ", "\n">>
    [] w = "fenced" -> FENCE_JSON \o <<"\n">> \o body \o <<"\n">> \o FENCE
    [] w = "fenced_tight" -> FENCE_JSON \o body \o FENCE
    [] w = "fenced_padded" ->
         <<" ", "\n">> \o FENCE_JSON \o <<" ">> \o body \o <<" ", "\n">> \o FENCE \o <<"\n", " ">>
    [] w = "open_only" -> FENCE_JSON \o <<"\n">> \o body
    [] OTHER -> body \o <<"\n">> \o FENCE

Bodies == {Dumps(x) : x \in Values} \cup Garbage

\* The keys a record of the model may come with: the six of the schema and
\* one that is not in it.
ShuffleKeys == ordered_keys \o <<K_notes>>

\* The most keys a record of Shuffles has.
MaxKeys == 2

\* Every record of at most MaxKeys distinct keys of ShuffleKeys, in every
\* order, each key with a value of its own.
Shuffles ==
  UNION { { Obj([i \in 1..n |-> Member(ShuffleKeys[f[i]], Num(f[i]))]) :
              f \in {g \in [1..n -> 1..Len(ShuffleKeys)] :
                       \A a, b \in 1..n : a # b => g[a] # g[b]} } :
          n \in 0..MaxKeys }

\* What the endpoint can answer: a ClientError of the provider, another
\* failure of the call, a response body that is no JSON, or a completion.
ProviderErrors == {"ThrottlingException", "AccessDeniedException"}

RemoteOutcomes ==
  {[kind |-> "ClientError", msg |-> m, body |-> <<>>, wrap |-> "bare"] : m \in ProviderErrors}
    \cup {[kind |-> "Exception", msg |-> "EndpointConnectionError", body |-> <<>>, wrap |-> "bare"]}
    \cup {[kind |-> "bad_body", msg |-> "Expecting value", body |-> <<>>, wrap |-> "bare"]}
    \cup {[kind |-> "completion", msg |-> "", body |-> b, wrap |-> w] : b \in Bodies, w \in Wraps}
    \cup {[kind |-> "completion", msg |-> "", body |-> Dumps(x), wrap |-> "bare"] : x \in Shuffles}

NoRemote == [kind |-> "none", msg |-> "", body |-> <<>>, wrap |-> "bare"]

\* The names uploads come with.
Filenames ==
  { <<>>,
    <<"s", "p", "e", "c", ".", "t", "x", "t">>,
    <<"a", ".", "p", "d", "f">>,
    <<"A", ".", "P", "D", "F">>,
    <<"a", ".", "P", "d", "f">>,
    <<"p", "d", "f">>,
    <<".", "p", "d", "f">>,
    <<"a", ".", "p", "d", "f", "x">>,
    <<"a", ".", "p", "d", "f", ".", "t", "x", "t">> }

\* ------------------------------------------------------------------ state

\* The names mkstemp can give a temporary file.
MaxTemp == 2

TempNames == 1..MaxTemp

VARIABLES
  pc,            \* where the request is in upload_file and process_pdf
  filename,      \* file.filename of the request
  temp_files,    \* the temporary files that exist
  temp_path,     \* temp_path of the request, 0 for None
  pdf_ok,        \* whether pdfplumber can read the saved upload
  mkstemp_calls, \* temporary files the request has created
  extract_calls, \* calls of extract_text_from_pdf in the request
  invoke_calls,  \* calls of client.invoke_model in the request
  remote,        \* what the endpoint answered
  result_text,   \* the completion
  raw_json,      \* what parse_with_bedrock returned
  json_output,   \* the canonical result
  summary,       \* the summary
  failure,       \* the exception of the step that failed
  raised,        \* the exception that leaves process_pdf
  stderr,        \* the lines the request printed to sys.stderr
  response       \* the response of the request

vars ==
  << pc, filename, temp_files, temp_path, pdf_ok, mkstemp_calls, extract_calls,
     invoke_calls, remote, result_text, raw_json, json_output, summary,
     failure, raised, stderr, response >>

NoSummary == [kind |-> "none", error |-> NoError]

\* No response: the handler was left by an exception nothing caught.
NoResponse ==
  [status |-> 0, success |-> FALSE, error |-> "", data |-> EmptyDict, summary |-> NoSummary]

\* jsonify({'error': message}), status
ErrorResponse(status, message) ==
  [status |-> status, success |-> FALSE, error |-> message, data |-> EmptyDict,
   summary |-> NoSummary]

\* app.config['JSON_SORT_KEYS'] and app.json.sort_keys
JSON_SORT_KEYS == FALSE

RECURSIVE InsertMember(_, _)
\* The members sorted by key, with m put at its place.
InsertMember(sorted, m) ==
  IF sorted = <<>> THEN <<m>>
  ELSE IF StrLess(m.k, Head(sorted).k) THEN <<m>> \o sorted
  ELSE <<Head(sorted)>> \o InsertMember(Tail(sorted), m)

RECURSIVE SortedValue(_)
RECURSIVE SortedMembers(_, _)

\* A value as the JSON provider writes it with sort_keys: the keys of every
\* dict in it in sorted order.
SortedValue(x) ==
  CASE x.t = "dict" -> Obj(SortedMembers(x.items, Len(x.items)))
    [] x.t = "list" -> Arr([i \in 1..Len(x.items) |-> SortedValue(x.items[i])])
    [] OTHER -> x

SortedMembers(members, n) ==
  IF n = 0 THEN <<>>
  ELSE InsertMember(SortedMembers(members, n - 1),
                    Member(members[n].k, SortedValue(members[n].v)))

\* The keys of the response's data in the order jsonify writes them.
serialized(json_data) == IF JSON_SORT_KEYS THEN SortedValue(json_data) ELSE json_data

\* jsonify({'success': True, 'data': json_data, 'summary': summary})
SuccessResponse(json_data, text) ==
  [status |-> 200, success |-> TRUE, error |-> "", data |-> serialized(json_data),
   summary |-> text]

\* A line on sys.stderr: its fixed text, then str(e) of the exception or the
\* text printed after it.
Line(text, e, arg) == [text |-> text, e |-> e, arg |-> arg]

ExceptClauses == {"ClientError", "JSONDecodeError", "Exception"}

\* The state of a request that has not started.
Fresh ==
  /\ pc = "idle"
  /\ filename = <<>>
  /\ temp_path = 0
  /\ pdf_ok = FALSE
  /\ mkstemp_calls = 0
  /\ extract_calls = 0
  /\ invoke_calls = 0
  /\ remote = NoRemote
  /\ result_text = <<>>
  /\ raw_json = Null
  /\ json_output = EmptyDict
  /\ summary = NoSummary
  /\ failure = NoError
  /\ raised = NoError
  /\ stderr = <<>>
  /\ response = NoResponse

Init ==
  /\ Fresh
  /\ temp_files = {}

\* ---------------------------------------------------------------- app.py

\* A test for '.pdf' anywhere in the name.
is_pdf_anywhere(name) == IsSubstring(DOT_PDF, lower(name), 1)

\* file.filename.lower().endswith('.pdf')
is_pdf(name) == endswith(lower(name), DOT_PDF)

\* upload_file up to the try block: the three early answers, or on to the
\* processing path.
ReceiveUpload ==
  /\ pc = "idle"
  /\ \E has_file \in BOOLEAN :
     \E name \in IF has_file THEN Filenames ELSE {<<>>} :
       /\ filename' = name
       /\ IF ~has_file
          THEN /\ response' = ErrorResponse(400, "No file part")
               /\ pc' = "done"
          ELSE IF name = <<>>
          THEN /\ response' = ErrorResponse(400, "No selected file")
               /\ pc' = "done"
          ELSE IF is_pdf(name)
          THEN /\ response' = response
               /\ pc' = "try"
          ELSE /\ response' = ErrorResponse(400, "Invalid file type. Please upload a PDF.")
               /\ pc' = "done"
  /\ UNCHANGED << temp_files, temp_path, pdf_ok, mkstemp_calls, extract_calls,
                  invoke_calls, remote, result_text, raw_json, json_output,
                  summary, failure, raised, stderr >>

\* tempfile.mkstemp, os.close, file.save. When mkstemp fails, temp_path is
\* still None; when it succeeds the file exists from then on, whether or
\* not the upload can be written to it.
SaveUpload ==
  /\ pc = "try"
  /\ \E path \in TempNames \ temp_files :
     \E created \in BOOLEAN, saved \in BOOLEAN, readable \in BOOLEAN :
       /\ temp_files' = IF created THEN temp_files \cup {path} ELSE temp_files
       /\ temp_path' = IF created THEN path ELSE 0
       /\ mkstemp_calls' = IF created THEN mkstemp_calls + 1 ELSE mkstemp_calls
       /\ IF created /\ saved
          THEN /\ pdf_ok' = readable
               /\ pc' = "process_pdf"
               /\ UNCHANGED << failure, raised >>
          ELSE /\ pdf_ok' = FALSE
               /\ pc' = "except"
               /\ failure' = [exc |-> "OSError", msg |-> "No space left on device"]
               /\ raised' = [exc |-> "OSError", msg |-> "No space left on device"]
  /\ UNCHANGED << filename, extract_calls, invoke_calls, remote, result_text,
                  raw_json, json_output, summary, stderr, response >>

\* ------------------------------------------------------- solar_parser.py

\* extract_text_from_pdf, which process_pdf calls twice; the first call
\* follows the os.path.exists check. A PDF that cannot be read is printed
\* to stderr and the call ends in sys.exit(1).
ExtractText ==
  /\ pc \in {"process_pdf", "extract_again"}
  /\ IF pc = "process_pdf" /\ temp_path \notin temp_files
     THEN /\ failure' = [exc |-> "FileNotFoundError", msg |-> "File not found"]
          /\ raised' = [exc |-> "FileNotFoundError", msg |-> "File not found"]
          /\ pc' = "except"
          /\ UNCHANGED << extract_calls, stderr >>
     ELSE /\ extract_calls' = extract_calls + 1
          /\ IF pdf_ok
             THEN /\ pc' = IF pc = "process_pdf" THEN "extract_again" ELSE "invoke"
                  /\ UNCHANGED << failure, raised, stderr >>
             ELSE /\ stderr' = Append(stderr, Line("Error reading PDF", "No /Root object", <<>>))
                  /\ failure' = [exc |-> "PDFSyntaxError", msg |-> "No /Root object"]
                  /\ raised' = SystemExit
                  /\ pc' = "finally"
  /\ UNCHANGED << filename, temp_files, temp_path, pdf_ok, mkstemp_calls,
                  invoke_calls, remote, result_text, raw_json, json_output,
                  summary, response >>

\* What leaves parse_with_bedrock through an except clause: each prints its
\* line and calls sys.exit(1). The JSONDecodeError clause then prints
\* result_text, which is unbound when it was the response body that did not
\* parse, and the clause is left by that error before its sys.exit.
except_clause(clause, bound) ==
  IF clause = "JSONDecodeError" /\ ~bound
  THEN [exc |-> "UnboundLocalError", msg |-> "result_text"]
  ELSE SystemExit

\* parse_with_bedrock up to result_text: the one call of invoke_model and
\* the reading of its response; after_error is where a ClientError leaves
\* the request. ClientError and any other exception are
\* printed and end in sys.exit(1); a response body that is no JSON enters
\* the JSONDecodeError clause, whose second print reads result_text before
\* it was ever bound.
InvokeWith(after_error) ==
  /\ pc = "invoke"
  /\ \E answer \in RemoteOutcomes :
       /\ remote' = answer
       /\ invoke_calls' = invoke_calls + 1
       /\ CASE answer.kind = "ClientError" ->
                 /\ stderr' = Append(stderr, Line("AWS Bedrock API Error:", answer.msg, <<>>))
                 /\ failure' = [exc |-> "ClientError", msg |-> answer.msg]
                 /\ raised' = except_clause("ClientError", FALSE)
                 /\ pc' = after_error
                 /\ UNCHANGED result_text
            [] answer.kind = "Exception" ->
                 /\ stderr' = Append(stderr, Line("An unexpected error occurred:", answer.msg, <<>>))
                 /\ failure' = [exc |-> answer.msg, msg |-> answer.msg]
                 /\ raised' = except_clause("Exception", FALSE)
                 /\ pc' = "finally"
                 /\ UNCHANGED result_text
            [] answer.kind = "bad_body" ->
                 /\ stderr' = Append(stderr, Line("Failed to parse JSON response from model:", answer.msg, <<>>))
                 /\ failure' = [exc |-> "JSONDecodeError", msg |-> answer.msg]
                 /\ raised' = except_clause("JSONDecodeError", FALSE)
                 /\ pc' = "except"
                 /\ UNCHANGED result_text
            [] OTHER ->
                 /\ result_text' = Wrap(answer.wrap, answer.body)
                 /\ pc' = "parse"
                 /\ UNCHANGED << stderr, failure, raised >>
  /\ UNCHANGED << filename, temp_files, temp_path, pdf_ok, mkstemp_calls,
                  extract_calls, raw_json, json_output, summary, response >>

\* A call that is sent again after a ClientError.
InvokeModelRetry == InvokeWith("invoke")

\* A ClientError ends the call: what is raised goes on to the finally clause
\* of upload_file.
InvokeModel == InvokeWith("finally")

\* The rest of parse_with_bedrock: the clean-up of the completion and
\* json.loads. A completion that does not parse is printed with the raw
\* text and ends in sys.exit(1).
ParseCompletion ==
  /\ pc = "parse"
  /\ LET r == json_loads(clean_json_text(result_text))
     IN  IF r.ok
         THEN /\ raw_json' = r.val
              /\ pc' = "normalize"
              /\ UNCHANGED << stderr, failure, raised >>
         ELSE /\ stderr' = stderr \o << Line("Failed to parse JSON response from model:", "Expecting value", <<>>),
                                        Line("Raw response:", "", result_text) >>
              /\ failure' = [exc |-> "JSONDecodeError", msg |-> "Expecting value"]
              /\ raised' = except_clause("JSONDecodeError", TRUE)
              /\ pc' = "finally"
              /\ UNCHANGED raw_json
  /\ UNCHANGED << filename, temp_files, temp_path, pdf_ok, mkstemp_calls,
                  extract_calls, invoke_calls, remote, result_text, json_output,
                  summary, response >>

\* The end of process_pdf: the canonical result and its summary. What the
\* comprehension or generate_summary raises leaves process_pdf.
Normalize ==
  /\ pc = "normalize"
  /\ IF CanonicalRaises(raw_json) # NoError
     THEN /\ failure' = CanonicalRaises(raw_json)
          /\ raised' = CanonicalRaises(raw_json)
          /\ pc' = "except"
          /\ UNCHANGED << json_output, summary >>
     ELSE LET out == json_output_of(raw_json)
              text == generate_summary(out)
          IN  /\ json_output' = out
              /\ IF text.raised = NoError
                 THEN /\ summary' = text.value
                      /\ pc' = "return"
                      /\ UNCHANGED << failure, raised >>
                 ELSE /\ failure' = text.raised
                      /\ raised' = text.raised
                      /\ pc' = IF IsException(text.raised) THEN "except" ELSE "finally"
                      /\ UNCHANGED summary
  /\ UNCHANGED << filename, temp_files, temp_path, pdf_ok, mkstemp_calls,
                  extract_calls, invoke_calls, remote, result_text, raw_json,
                  stderr, response >>

\* ------------------------------------------------- app.py, after the call

\* return jsonify({'success': True, ...})
ReturnSuccess ==
  /\ pc = "return"
  /\ response' = SuccessResponse(json_output, summary)
  /\ pc' = "finally"
  /\ UNCHANGED << filename, temp_files, temp_path, pdf_ok, mkstemp_calls,
                  extract_calls, invoke_calls, remote, result_text, raw_json,
                  json_output, summary, failure, raised, stderr >>

\* except Exception as e: return jsonify({'error': str(e)}), 500
HandleException ==
  /\ pc = "except"
  /\ response' = ErrorResponse(500, raised.msg)
  /\ pc' = "finally"
  /\ UNCHANGED << filename, temp_files, temp_path, pdf_ok, mkstemp_calls,
                  extract_calls, invoke_calls, remote, result_text, raw_json,
                  json_output, summary, failure, raised, stderr >>

\* A clean-up that runs after the try statement instead of in its finally
\* clause: an exception that no clause caught passes it by.
cleanup_after_try(files, path, e) ==
  IF e.exc = "SystemExit" THEN files
  ELSE IF path # 0 /\ path \in files THEN files \ {path} ELSE files

\* The files left by "if temp_path and os.path.exists(temp_path):
\* os.remove(temp_path)", which the finally clause runs however the try
\* block was left: e is the exception in flight.
cleanup(files, path, e) ==
  IF path # 0 /\ path \in files THEN files \ {path} ELSE files

\* finally: the clean-up; then the response is sent, or the exception that
\* no clause caught goes on and the request ends with no response.
Finally ==
  /\ pc = "finally"
  /\ temp_files' = cleanup(temp_files, temp_path, raised)
  /\ pc' = "done"
  /\ UNCHANGED << filename, temp_path, pdf_ok, mkstemp_calls, extract_calls,
                  invoke_calls, remote, result_text, raw_json, json_output,
                  summary, failure, raised, stderr, response >>

\* The request is over; the next one starts from nothing but the files and
\* what was observed.
Finish ==
  /\ pc = "done"
  /\ pc' = "idle"
  /\ filename' = <<>>
  /\ temp_path' = 0
  /\ pdf_ok' = FALSE
  /\ mkstemp_calls' = 0
  /\ extract_calls' = 0
  /\ invoke_calls' = 0
  /\ remote' = NoRemote
  /\ result_text' = <<>>
  /\ raw_json' = Null
  /\ json_output' = EmptyDict
  /\ summary' = NoSummary
  /\ failure' = NoError
  /\ raised' = NoError
  /\ stderr' = <<>>
  /\ response' = NoResponse
  /\ UNCHANGED temp_files

Next ==
  \/ ReceiveUpload
  \/ SaveUpload
  \/ ExtractText
  \/ InvokeModel
  \/ ParseCompletion
  \/ Normalize
  \/ ReturnSuccess
  \/ HandleException
  \/ Finally
  \/ Finish

Spec == Init /\ [][Next]_vars

\* ----------------------------------------------------------------- claims

\* process_pdf has returned: its result is on the way to the response or
\* in it.
Returned == pc = "return" \/ response.success

\* json.loads has returned a value for the completion of this request.
ParsedOk ==
  /\ remote.kind = "completion"
  /\ pc \notin {"invoke", "parse"}
  /\ failure.exc # "JSONDecodeError"

\* The place of a key in the fixed list.
KeyRank(key) == CHOOSE i \in 1..Len(ordered_keys) : ordered_keys[i] = key

IsOrderedKey(key) == \E i \in 1..Len(ordered_keys) : ordered_keys[i] = key

\* C1: when the model returned a JSON object, the keys of the canonical
\* result are the keys of the fixed list that the object has, in the order
\* of the fixed list, each with the object's value; unknown keys are
\* dropped, missing keys are not inserted, and the response carries the
\* result as it is.
C1_CanonicalKeyOrder ==
  (Returned /\ IsDict(raw_json)) =>
    LET out == json_output.items
    IN  /\ \A i \in 1..Len(out) :
             /\ IsOrderedKey(out[i].k)
             /\ HasKey(raw_json, out[i].k)
             /\ out[i].v = Lookup(raw_json, out[i].k)
        /\ \A j \in 1..Len(ordered_keys) :
             HasKey(raw_json, ordered_keys[j]) =>
               \E i \in 1..Len(out) : out[i].k = ordered_keys[j]
        /\ \A i, j \in 1..Len(out) :
             i < j => KeyRank(out[i].k) < KeyRank(out[j].k)
        /\ response.success => response.data = json_output

\* C1: a finished request whose object had its keys out of order, one of
\* them unknown and two of the fixed list missing.
C1_Witness ==
  /\ pc = "done"
  /\ response.success
  /\ IsDict(raw_json)
  /\ Len(raw_json.items) = 5
  /\ raw_json.items[1].k = K_certifications
  /\ HasKey(raw_json, K_notes)
  /\ Len(json_output.items) = 4

\* C2: a finished upload of a name that ends in .pdf whose pipeline failed
\* at any step is answered by the error envelope with status 500 and the
\* message of the failure.
C2_FailureAnswered ==
  (pc = "done" /\ is_pdf(filename) /\ failure # NoError) =>
    /\ response.status = 500
    /\ ~response.success
    /\ response.error = failure.msg

\* The except clause of parse_with_bedrock that a failure entered.
ClauseOf(e) ==
  IF e.exc \in {"ClientError", "JSONDecodeError"} THEN e.exc ELSE "Exception"

FailedInModelClient ==
  /\ pc = "done"
  /\ remote # NoRemote
  /\ failure # NoError
  /\ failure.exc \in {"ClientError", "JSONDecodeError", "EndpointConnectionError"}

\* C3: a failure of the Model Client reaches the caller as an outcome that
\* no other failure mode gives; a remote error carries the provider's
\* message, and a completion that does not parse has its raw text in the
\* diagnostic output.
C3_FailureModesDistinct ==
  FailedInModelClient =>
    /\ \A other \in ExceptClauses \ {ClauseOf(failure)} :
         \A bound \in BOOLEAN : except_clause(other, bound) # raised
    /\ failure.exc = "ClientError" => raised.msg = failure.msg
    /\ (failure.exc = "JSONDecodeError" /\ remote.kind = "completion") =>
         \E i \in 1..Len(stderr) :
           stderr[i] = Line("Raw response:", "", result_text)

\* C4: a processing call sends at most one request to the endpoint; once
\* the endpoint has answered, with an error or with a completion, the call
\* is past the request for good, and an error of the endpoint ends the
\* request with one exception in flight.
C4_OneRequestPerCall ==
  /\ invoke_calls <= 1
  /\ remote # NoRemote => (invoke_calls = 1 /\ pc # "invoke")
  /\ remote.kind = "ClientError" =>
       (pc \in {"finally", "done"} /\ raised = SystemExit)

\* C4: a finished request whose one call was throttled.
C4_Witness ==
  /\ pc = "done"
  /\ remote.kind = "ClientError"
  /\ remote.msg = "ThrottlingException"
  /\ invoke_calls = 1

\* The name does not end in .pdf, whatever the case of its letters.
NotPdfName(name) ==
  ~ /\ Len(name) >= 4
    /\ name[Len(name) - 3] = "."
    /\ name[Len(name) - 2] \in {"p", "P"}
    /\ name[Len(name) - 1] \in {"d", "D"}
    /\ name[Len(name)] \in {"f", "F"}

\* C5: a request whose file name does not end in .pdf is over at once, with
\* the error envelope and status 400, and has created no temporary file,
\* extracted no text and called no endpoint.
C5_NonPdfRejected ==
  (pc # "idle" /\ NotPdfName(filename)) =>
    /\ pc = "done"
    /\ response.status = 400
    /\ ~response.success
    /\ response.error # ""
    /\ mkstemp_calls = 0
    /\ extract_calls = 0
    /\ invoke_calls = 0
    /\ temp_path = 0

\* C5: the upload of spec.txt, rejected for its type.
C5_Witness ==
  /\ pc = "done"
  /\ filename = <<"s", "p", "e", "c", ".", "t", "x", "t">>
  /\ response = ErrorResponse(400, "Invalid file type. Please upload a PDF.")

\* The call is not left by an exception, and what it returns holds a
\* summary: the report or the error string.
ReturnsWithSummary ==
  /\ failure = NoError
  /\ pc \in {"normalize", "return", "finally", "done"}
  /\ pc # "normalize" => (response.success \/ pc = "return")
  /\ pc # "normalize" => summary.kind \in {"report", "error"}

\* C6 as stated: once the response of the model was parsed as JSON, the
\* call returns the canonical result and a summary.
C6_AlwaysReturnsOnceParsed == ParsedOk => ReturnsWithSummary

\* C6, amended: once the response of the model was parsed as a JSON object,
\* the call returns the canonical result and a summary; an error raised
\* while the summary is generated is put into the summary and never leaves
\* the call.
C6_ObjectAlwaysReturns == (ParsedOk /\ IsDict(raw_json)) => ReturnsWithSummary

\* C6: a successful response whose summary is the error string, for a
\* section that is null.
C6_Witness ==
  /\ pc = "done"
  /\ response.success
  /\ IsDict(raw_json)
  /\ HasKey(raw_json, K_product)
  /\ Lookup(raw_json, K_product) = Null
  /\ response.summary = SummaryError(AttributeError(Null))

\* C7: a completion that is a JSON text in a leading and a trailing fence,
\* with or without whitespace around them, parses to the value of the text
\* itself; so does a completion with no fence, with or without whitespace
\* around it.
C7_FenceStripping ==
  ( /\ remote.kind = "completion"
    /\ pc \notin {"invoke", "parse"}
    /\ remote.wrap \in {"fenced", "fenced_tight", "fenced_padded", "bare", "padded"}
    /\ json_loads(remote.body).ok ) =>
      /\ failure.exc # "JSONDecodeError"
      /\ raw_json = json_loads(remote.body).val

\* C7: the full record, in a fence with whitespace around it, parsed.
C7_Witness ==
  /\ pc = "done"
  /\ remote.wrap = "fenced_padded"
  /\ startswith(strip(result_text), FENCE_JSON)
  /\ endswith(strip(result_text), FENCE)
  /\ IsDict(raw_json)
  /\ Len(raw_json.items) = 6
  /\ response.success

\* The non-null efficiency_pct values of the entries of power_variants in
\* the canonical result, the list being missing or a list of records.
Efficiencies ==
  LET elec == section(json_output, K_electrical_specs)
      entries == dict_get(elec, K_power_variants, EmptyList).items
  IN  { Lookup(entries[i], K_efficiency_pct) :
          i \in {j \in 1..Len(entries) :
                   /\ IsDict(entries[j])
                   /\ HasKey(entries[j], K_efficiency_pct)
                   /\ Lookup(entries[j], K_efficiency_pct) # Null} }

\* C8: the efficiency of the report is the largest of the non-null
\* efficiency_pct values of the entries of power_variants, and "N/A" when
\* there is none.
C8_MaxEfficiency ==
  (Returned /\ IsDict(raw_json) /\ summary.kind = "report") =>
    IF Efficiencies = {} THEN summary.slots.efficiency = Str(S_NA)
    ELSE /\ summary.slots.efficiency \in Efficiencies
         /\ \A e \in Efficiencies :
              e.t = "number" => e.n <= summary.slots.efficiency.n

\* C8: 21.2, null, 22.5 is reported as 22.5.
C8_Witness ==
  /\ pc = "done"
  /\ response.success
  /\ Efficiencies = {Num(212), Num(225)}
  /\ Len(Lookup(Lookup(json_output, K_electrical_specs), K_power_variants).items) = 3
  /\ response.summary.kind = "report"
  /\ response.summary.slots.efficiency = Num(225)

\* C9: when the model returns {}, the call returns; the canonical result has
\* no key and the summary is the report with its placeholders.
C9_EmptyObject ==
  (ParsedOk /\ raw_json = EmptyDict) =>
    /\ ReturnsWithSummary
    /\ pc # "normalize" =>
         /\ json_output = EmptyDict
         /\ summary.kind = "report"
         /\ summary.slots.manufacturer = Str(S_Unknown)
         /\ summary.slots.series = Str(S_Solar_Module)
         /\ summary.slots.efficiency = Str(S_NA)

\* C9: the response to a completion that was {}.
C9_Witness ==
  /\ pc = "done"
  /\ remote.kind = "completion"
  /\ raw_json = EmptyDict
  /\ response.success
  /\ response.data = EmptyDict
  /\ response.summary.kind = "report"

\* C10: from the call of the pipeline to the finally clause the temporary
\* file of the request exists, and it was created before any text was
\* extracted; when the request has ended, however it ended, no temporary
\* file exists.
C10_TempFileRemoved ==
  /\ pc \in {"process_pdf", "extract_again", "invoke", "parse", "normalize", "return"} =>
       (mkstemp_calls = 1 /\ temp_path \in temp_files)
  /\ extract_calls > 0 => mkstemp_calls = 1
  /\ pc \in {"done", "idle"} => temp_files = {}

\* C10: a request that sys.exit left, its temporary file gone.
C10_Witness ==
  /\ pc = "done"
  /\ raised = SystemExit
  /\ mkstemp_calls = 1
  /\ temp_path # 0
  /\ temp_path \notin temp_files

====
